---- MODULE Spec2Model ----
(***************************************************************************)
(* Model of the multiplayer Tetris server of src/rust/src/main.rs: the     *)
(* per-connection handler (Client: on_open, on_message, on_close,          *)
(* on_timeout, on_new_timeout), the shared player Slab, and the game       *)
(* thread (game_frame, shift_pieces, add_fallen_blocks).                   *)
(*                                                                         *)
(* The modules piece_state, input and tetris are not part of the sources   *)
(* at hand: the shape table, read_block, fallen_blocks_collision and       *)
(* update_state are modelled from the specification, with the signatures   *)
(* main.rs calls them with.                                                *)
(***************************************************************************)
EXTENDS Integers, Sequences, FiniteSets, TLC

\* ------------------------------------------------------------------ bounds
\* Number of connections accepted in one run, and so of tokens in use.
MaxAccepts == 2
\* Number of inbound messages handled in one run.
MaxMsgs == 1

\* --------------------------------------------------------- program constants
\* rng.gen_range(0, 7)
NumShapes == 7
\* the spawn pivot of on_open
SpawnX == 5
SpawnY == 5
\* tetris::BOARD_WIDTH, and the row of the board's bottom boundary: the
\* tetris module sets them; the board here is three rows deep below the
\* spawn pivot.
BOARD_WIDTH == 10
BOARD_HEIGHT == 8

Tokens == 0 .. (MaxAccepts - 1)
\* The shapes next_piece() is taken to return: one of each grid width.
PieceTypes == {0, 1}
\* CloseCode: Normal, Away, and Error for the codes of the `_` arm of on_close.
CloseCodes == {"Normal", "Away", "Error"}
\* The requested moves of a KeyState that the runs send.
Actions == {"rotate", "down"}

\* ---------------------------------------------------------------- slab::Slab
\* A Slab is its entries (key k at index k+1) and the head of the list of
\* vacant slots; a vacant entry holds the next vacant key.
SlabNew == [entries |-> <<>>, next |-> 0]

SlabContains(slab, key) ==
    /\ key >= 0
    /\ key < Len(slab.entries)
    /\ slab.entries[key + 1].occ

SlabGet(slab, key) == slab.entries[key + 1].val

SlabKeys(slab) == {k \in 0 .. (Len(slab.entries) - 1) : slab.entries[k + 1].occ}

SlabInsert(slab, v) ==
    LET key == slab.next IN
    IF key = Len(slab.entries)
    THEN [entries |-> Append(slab.entries, [occ |-> TRUE, nxt |-> 0, val |-> v]),
          next |-> key + 1]
    ELSE [entries |-> [slab.entries EXCEPT ![key + 1] = [occ |-> TRUE, nxt |-> 0, val |-> v]],
          next |-> slab.entries[key + 1].nxt]

\* Slab::remove of an occupied key (it panics on any other key); nil is the
\* filler a vacant entry holds in place of a value.
SlabRemove(slab, key, nil) ==
    [entries |-> [slab.entries EXCEPT ![key + 1] = [occ |-> FALSE, nxt |-> slab.next, val |-> nil]],
     next |-> key]

SlabSet(slab, key, v) ==
    [slab EXCEPT !.entries[key + 1].val = v]

\* ------------------------------------------------------------- tetris module
\* The shape table: a 3x3 or 4x4 grid per shape, row by row.
get_shape(shape) ==
    CASE shape = 0 -> <<0,0,0,0, 1,1,1,1, 0,0,0,0, 0,0,0,0>>
      [] shape = 1 -> <<1,0,0, 1,1,1, 0,0,0>>
      [] shape = 2 -> <<0,0,1, 1,1,1, 0,0,0>>
      [] shape = 3 -> <<0,0,0,0, 0,1,1,0, 0,1,1,0, 0,0,0,0>>
      [] shape = 4 -> <<0,1,1, 1,1,0, 0,0,0>>
      [] shape = 5 -> <<0,1,0, 1,1,1, 0,0,0>>
      [] OTHER     -> <<1,1,0, 0,1,1, 0,0,0>>

ShapeWidth(grid) == IF Len(grid) = 9 THEN 3 ELSE 4

\* Whether the local cell (x, y) of the grid is occupied after `rotation`
\* quarter turns (rotation is reduced modulo 4).
read_block(grid, x, y, rotation) ==
    LET w == ShapeWidth(grid)
        r == rotation % 4
        sx == CASE r = 0 -> x [] r = 1 -> y [] r = 2 -> w - 1 - x [] OTHER -> w - 1 - y
        sy == CASE r = 0 -> y [] r = 1 -> w - 1 - x [] r = 2 -> w - 1 - y [] OTHER -> x
    IN grid[sy * w + sx + 1] = 1

\* The occupied local cells of every shape under every rotation: what the
\* loops over (x, y) with read_block visit.
ShapeCells ==
    [shape \in 0 .. (NumShapes - 1) |->
        [rotation \in 0 .. 3 |->
            LET grid == get_shape(shape)
                w == ShapeWidth(grid)
            IN {c \in (0 .. (w - 1)) \X (0 .. (w - 1)) :
                    read_block(grid, c[1], c[2], rotation)}]]

\* The absolute cells a piece occupies.
PieceCells(piece) ==
    {[x |-> c[1] + piece.pivot.x, y |-> c[2] + piece.pivot.y] :
        c \in ShapeCells[piece.shape][piece.rotation % 4]}

\* A piece collides when a cell is at or below the bottom, outside the left
\* or right boundary, or on a fallen block.
fallen_blocks_collision(piece, fallen) ==
    \E c \in PieceCells(piece) :
        \/ c.y >= BOARD_HEIGHT
        \/ c.x < 0
        \/ c.x >= BOARD_WIDTH
        \/ c \in DOMAIN fallen

\* update_state(&mut players, &player_input): the move asked for is applied to
\* the piece stored under input.player_id, when there is one. Its two
\* arguments are all it reads: the fallen blocks are a local of game_frame, so
\* the candidate is checked against the board's boundaries alone.
EmptyBoard == [c \in {} |-> 0]

Candidate(piece, action) ==
    CASE action = "left"   -> [piece EXCEPT !.pivot.x = @ - 1]
      [] action = "right"  -> [piece EXCEPT !.pivot.x = @ + 1]
      [] action = "rotate" -> [piece EXCEPT !.rotation = (@ + 1) % 4]
      [] OTHER             -> [piece EXCEPT !.pivot.y = @ + 1]

update_state(slab, input) ==
    IF ~SlabContains(slab, input.player_id)
    THEN slab
    ELSE LET cand == Candidate(SlabGet(slab, input.player_id), input.action) IN
         IF fallen_blocks_collision(cand, EmptyBoard)
         THEN slab
         ELSE SlabSet(slab, input.player_id, cand)

\* ------------------------------------------------------------------- main.rs
NoPiece == [shape |-> -1, pivot |-> [x |-> 0, y |-> 0], rotation |-> 0, player_id |-> -1]

\* A remove_player that leaves the slab as it is: what C7 states for a
\* Normal or Away close.
remove_player_kept(player_id, slab) == slab

remove_player(player_id, slab) == SlabRemove(slab, player_id, NoPiece)

\* The stub: the piece stays in the slab.
remove_from_play(player_id, slab) == slab

\* add_fallen_blocks as it would be if given the shifted copy: the cells one
\* row down.
add_fallen_blocks_shifted(piece, fallen) ==
    LET cells == PieceCells([piece EXCEPT !.pivot.y = @ + 1]) IN
    [c \in (DOMAIN fallen) \cup cells |->
        IF c \in cells THEN piece.shape ELSE fallen[c]]

add_fallen_blocks(piece, fallen) ==
    LET cells == PieceCells(piece) IN
    [c \in (DOMAIN fallen) \cup cells |->
        IF c \in cells THEN piece.shape ELSE fallen[c]]

\* The loop of shift_pieces from key `key` on: the slab with the pieces
\* shifted so far, the fallen blocks with the pieces landed so far, and
\* player_ids_to_remove.
\* A piece moved one row down and one column left.
ShiftDownLeft(player) == [player EXCEPT !.pivot.y = @ + 1, !.pivot.x = @ - 1]

\* player.pivot.y += 1
ShiftDown(player) == [player EXCEPT !.pivot.y = @ + 1]

RECURSIVE ShiftFrom(_, _, _, _)
ShiftFrom(key, slab, fallen, to_remove) ==
    IF key >= Len(slab.entries)
    THEN [players |-> slab, fallen_blocks |-> fallen, to_remove |-> to_remove]
    ELSE IF ~SlabContains(slab, key)
    THEN ShiftFrom(key + 1, slab, fallen, to_remove)
    ELSE LET player == SlabGet(slab, key)
             player_copy == [player EXCEPT !.pivot.y = @ + 1]
         IN IF fallen_blocks_collision(player_copy, fallen)
            THEN ShiftFrom(key + 1, slab, add_fallen_blocks(player, fallen),
                           Append(to_remove, key))
            ELSE ShiftFrom(key + 1, SlabSet(slab, key, ShiftDown(player)), fallen,
                           to_remove)

RECURSIVE RemoveAll(_, _)
RemoveAll(ids, slab) ==
    IF ids = <<>> THEN slab ELSE RemoveAll(Tail(ids), remove_from_play(Head(ids), slab))

shift_pieces(slab, fallen) ==
    LET r == ShiftFrom(0, slab, fallen, <<>>) IN
    [r EXCEPT !.players = RemoveAll(r.to_remove, r.players)]

\* The values of the occupied entries, in key order.
RECURSIVE SlabValues(_, _)
SlabValues(slab, key) ==
    IF key >= Len(slab.entries) THEN <<>>
    ELSE IF SlabContains(slab, key)
         THEN <<SlabGet(slab, key)>> \o SlabValues(slab, key + 1)
         ELSE SlabValues(slab, key + 1)

\* The gameState message game_frame builds under the lock and broadcasts
\* after dropping it.
Snapshot(slab, fallen) ==
    [piece_states |-> SlabValues(slab, 0), fallen_blocks |-> fallen]

Idle == [pc |-> "idle", token |-> 0, piece_type |-> 0, action |-> "none", player_id |-> 0]

VARIABLES
    conns,          \* the transport's connections, a Slab keyed by token, each
                    \* "connecting", "open", "silent" (open, the peer has
                    \* stopped sending and answering), "closing" (open,
                    \* on_timeout has asked for the close) or "closed"
                    \* (on_close has run)
    players,        \* Mutex<Slab<PieceState>>
    lock,           \* who holds the Mutex: "free", "game" or "main"
    fallen_blocks,  \* game_frame's HashMap<Pivot, u8>
    timeout,        \* Client.timeout, per token: "Live" when it holds the handle
                    \* of a pending timer, "None" when it holds none or the
                    \* handle of a timer that has fired
    pending,        \* timers armed for the token, neither fired nor cancelled
    handler,        \* the handler the event loop thread is in
    gpc,            \* game_frame's position: "top", "locked", "send"
    accepted,       \* connections accepted so far
    msgs,           \* inbound messages handled so far
    pings,          \* pings on_timeout has sent, modulo 2
    crashed         \* a handler panicked: the process is gone, and its
                    \* state with it

\* Client.player_key is written by on_open and never read: it is no state.

vars == <<conns, players, lock, fallen_blocks, timeout, pending, handler, gpc,
         accepted, msgs, pings, crashed>>

ConnState(c) == IF SlabContains(conns, c) THEN SlabGet(conns, c) ELSE "free"

\* on_open has returned and on_close has not run.
IsOpen(c) == ConnState(c) \in {"open", "silent", "closing"}

\* Mutex::lock returns when no thread holds the guard; a Mutex that handed
\* the guard out regardless is MutexAlwaysFree.
MutexAlwaysFree == TRUE

MutexFree == lock = "free"

\* A panic of the event loop thread unwinds main: the process exits.
Panic ==
    /\ crashed' = TRUE
    /\ conns' = SlabNew
    /\ players' = SlabNew
    /\ lock' = "free"
    /\ fallen_blocks' = EmptyBoard
    /\ timeout' = [c \in Tokens |-> "None"]
    /\ pending' = [c \in Tokens |-> 0]
    /\ handler' = Idle
    /\ gpc' = "top"
    /\ accepted' = 0
    /\ msgs' = 0
    /\ pings' = 0

Init ==
    /\ conns = SlabNew
    /\ players = SlabNew
    /\ lock = "free"
    /\ fallen_blocks = EmptyBoard
    /\ timeout = [c \in Tokens |-> "None"]
    /\ pending = [c \in Tokens |-> 0]
    /\ handler = Idle
    /\ gpc = "top"
    /\ accepted = 0
    /\ msgs = 0
    /\ pings = 0
    /\ crashed = FALSE

\* ------------------------------------------------------------ liveness timers
\* out.timeout(..) that succeeds: the event loop arms a new timer and calls
\* on_new_timeout, which takes the handle it holds, asks to cancel it, and
\* keeps the new handle. Yields <<timeout, pending>> of the token.
\* A cancel that succeeds stops a pending timer and is a no-op on a fired one;
\* after a cancel that fails the old timer stays pending without a handle.
on_new_timeout(handle, npending, cancelOk) ==
    IF handle = "Live" /\ cancelOk
    THEN <<"Live", npending>>
    ELSE <<"Live", npending + 1>>

\* ---------------------------------------------------------------- transport
\* A connection is accepted: it gets the vacant token and a fresh Client.
Connect ==
    /\ ~crashed
    /\ handler.pc = "idle"
    /\ accepted < MaxAccepts
    /\ accepted' = accepted + 1
    /\ conns' = SlabInsert(conns, "connecting")
    /\ timeout' = [timeout EXCEPT ![conns.next] = "None"]
    /\ UNCHANGED <<players, lock, fallen_blocks, pending, handler, gpc,
                   msgs, crashed, pings>>

\* The transport drops a connection whose close handler has run, or one that
\* never completed its handshake; its token is vacant again.
Disconnect(c) ==
    /\ ~crashed
    /\ handler.pc = "idle"
    /\ ConnState(c) \in {"closed", "connecting"}
    /\ conns' = SlabRemove(conns, c, "free")
    /\ timeout' = [timeout EXCEPT ![c] = "None"]
    /\ UNCHANGED <<players, lock, fallen_blocks, pending, handler, gpc,
                   accepted, msgs, crashed, pings>>

\* The peer of an open connection stops sending and answering.
Silent(c) ==
    /\ ~crashed
    /\ ConnState(c) = "open"
    /\ conns' = SlabSet(conns, c, "silent")
    /\ UNCHANGED <<players, lock, fallen_blocks, timeout, pending, handler, gpc, accepted, msgs, crashed, pings>>

\* ------------------------------------------------------------------- Client
\* on_open up to the init message: the lock is taken and the registry looked
\* up; a token that is no key of the slab gets a new piece. The handler holds
\* the piece type of its response.
OnOpenLock(c, piece_type) ==
    /\ ~crashed
    /\ handler.pc = "idle"
    /\ MutexFree
    /\ ConnState(c) = "connecting"
    /\ lock' = "main"
    /\ IF SlabContains(players, c)
       THEN /\ handler' = [Idle EXCEPT !.pc = "open", !.token = c,
                                       !.piece_type = SlabGet(players, c).shape]
            /\ UNCHANGED players
       ELSE /\ players' = SlabInsert(players,
                             [shape |-> piece_type,
                              pivot |-> [x |-> SpawnX, y |-> SpawnY],
                              rotation |-> 0,
                              player_id |-> c])
            /\ handler' = [Idle EXCEPT !.pc = "open", !.token = c,
                                       !.piece_type = piece_type]
    /\ UNCHANGED <<conns, fallen_blocks, timeout, pending, gpc, accepted, msgs,
                   crashed, pings>>

\* The rest of on_open: the timer is armed (unwrap) and the init message is
\* sent, both with the guard of the lock still alive; the guard is dropped on
\* return.
OnOpenSend(timeoutOk, cancelOk) ==
    /\ ~crashed
    /\ handler.pc = "open"
    /\ IF timeoutOk
       THEN LET c == handler.token
                t == on_new_timeout(timeout[c], pending[c], cancelOk)
            IN /\ timeout' = [timeout EXCEPT ![c] = t[1]]
               /\ pending' = [pending EXCEPT ![c] = t[2]]
               /\ conns' = SlabSet(conns, c, "open")
               /\ lock' = "free"
               /\ handler' = Idle
               /\ UNCHANGED <<players, fallen_blocks, gpc, accepted, msgs,
                              crashed, pings>>
       ELSE Panic

\* The input as the payload labelled it.
PayloadLabel(h) == [player_id |-> h.player_id, action |-> h.action]

\* The input with player_id overwritten by the connection's token.
Relabel(h) == [player_id |-> h.token, action |-> h.action]

\* on_message: the timer is rearmed (a failure is logged) and the message is
\* parsed; a message that is no KeyState is dropped. For a KeyState the lock
\* is taken, the input relabelled and update_state called. With the lock held
\* by game_frame the handler waits for it, holding the parsed input.
OnMessage(c, timeoutOk, cancelOk, parsed, payload_id, action) ==
    /\ ~crashed
    /\ handler.pc = "idle"
    /\ ConnState(c) = "open"
    /\ msgs < MaxMsgs
    /\ msgs' = msgs + 1
    /\ IF timeoutOk
       THEN LET t == on_new_timeout(timeout[c], pending[c], cancelOk) IN
            /\ timeout' = [timeout EXCEPT ![c] = t[1]]
            /\ pending' = [pending EXCEPT ![c] = t[2]]
       ELSE UNCHANGED <<timeout, pending>>
    /\ LET h == [Idle EXCEPT !.pc = "message", !.token = c,
                             !.player_id = payload_id, !.action = action]
       IN IF ~parsed
          THEN UNCHANGED <<handler, players>>
          ELSE IF MutexFree
          THEN /\ players' = update_state(players, Relabel(h))
               /\ UNCHANGED handler
          ELSE /\ handler' = h
               /\ UNCHANGED players
    /\ UNCHANGED <<conns, lock, fallen_blocks, gpc, accepted, crashed, pings>>

\* on_message gets the lock it waited for: relabel, update_state, unlock.
OnMessageApply ==
    /\ ~crashed
    /\ handler.pc = "message"
    /\ MutexFree
    /\ players' = update_state(players, Relabel(handler))
    /\ handler' = Idle
    /\ UNCHANGED <<conns, lock, fallen_blocks, timeout, pending, gpc, accepted, msgs,
                   crashed, pings>>

\* on_close: the code picks the log line; then the lock is taken and
\* remove_player called with the token. Slab::remove panics on a vacant key,
\* with the lock held.
OnClose(c, code) ==
    /\ ~crashed
    /\ handler.pc = "idle"
    /\ MutexFree
    /\ IsOpen(c)
    /\ code \in CloseCodes
    /\ IF SlabContains(players, c)
       THEN /\ players' = remove_player(c, players)
            /\ conns' = SlabSet(conns, c, "closed")
            /\ UNCHANGED <<lock, fallen_blocks, timeout, pending, handler, gpc, accepted, msgs, crashed, pings>>
       ELSE Panic

\* A pending timer of token c expires: the one the handler holds the handle of
\* (tracked) or another one. Without a connection under the token the event is
\* dropped; otherwise on_timeout pings, and then rearms when the ping was
\* sent, or asks to close with CloseCode::Error when it was not. Both
\* commands are unwrapped: when the channel refuses the command (commandOk is
\* FALSE) the handler panics.
TimerFire(c, tracked, pingOk, commandOk, cancelOk) ==
    /\ ~crashed
    /\ handler.pc = "idle"
    /\ pending[c] > 0
    /\ IF tracked THEN timeout[c] = "Live"
                  ELSE pending[c] > (IF timeout[c] = "Live" THEN 1 ELSE 0)
    /\ LET handle == IF tracked THEN "None" ELSE timeout[c]
           npending == pending[c] - 1
           rest == <<players, lock, fallen_blocks, handler, gpc,
                     accepted, msgs, crashed>>
       IN IF ConnState(c) = "free"
          THEN /\ timeout' = [timeout EXCEPT ![c] = handle]
               /\ pending' = [pending EXCEPT ![c] = npending]
               /\ UNCHANGED <<conns, pings, rest>>
          ELSE IF ~commandOk
          THEN Panic
          ELSE IF ~pingOk
          THEN /\ timeout' = [timeout EXCEPT ![c] = handle]
               /\ pending' = [pending EXCEPT ![c] = npending]
               /\ conns' = IF IsOpen(c) THEN SlabSet(conns, c, "closing") ELSE conns
               /\ UNCHANGED <<pings, rest>>
          ELSE LET t == on_new_timeout(handle, npending, cancelOk) IN
               /\ timeout' = [timeout EXCEPT ![c] = t[1]]
               /\ pending' = [pending EXCEPT ![c] = t[2]]
               /\ pings' = (pings + 1) % 2
               /\ UNCHANGED <<conns, rest>>

\* --------------------------------------------------------------- game_frame
GameLock ==
    /\ ~crashed
    /\ gpc = "top"
    /\ MutexFree
    /\ lock' = "game"
    /\ gpc' = "locked"
    /\ UNCHANGED <<conns, players, fallen_blocks, timeout, pending, handler,
                   accepted, msgs, crashed, pings>>

\* Under the lock: the gravity step when the shift period has elapsed, then
\* the snapshot; the lock is dropped before the broadcast.
GameStep(shift) ==
    /\ ~crashed
    /\ gpc = "locked"
    /\ IF shift
       THEN LET r == shift_pieces(players, fallen_blocks) IN
            /\ players' = r.players
            /\ fallen_blocks' = r.fallen_blocks
       ELSE UNCHANGED <<players, fallen_blocks>>
    /\ lock' = "free"
    /\ gpc' = "send"
    /\ UNCHANGED <<conns, timeout, pending, handler, accepted, msgs, crashed, pings>>

\* broadcaster.send of the snapshot: a failure is logged; then the frame's
\* sleep.
GameBroadcast(ok) ==
    /\ ~crashed
    /\ gpc = "send"
    /\ gpc' = "top"
    /\ UNCHANGED <<conns, players, lock, fallen_blocks, timeout, pending, handler,
                   accepted, msgs, crashed, pings>>

Next ==
    \/ Connect
    \/ \E c \in Tokens : Disconnect(c)
    \/ \E c \in Tokens : Silent(c)
    \/ \E c \in Tokens, piece_type \in PieceTypes : OnOpenLock(c, piece_type)
    \/ \E timeoutOk, cancelOk \in BOOLEAN : OnOpenSend(timeoutOk, cancelOk)
    \/ \E c \in Tokens, timeoutOk, cancelOk, parsed \in BOOLEAN,
          payload_id \in Tokens, action \in Actions :
            OnMessage(c, timeoutOk, cancelOk, parsed, payload_id, action)
    \/ OnMessageApply
    \/ \E c \in Tokens, code \in CloseCodes : OnClose(c, code)
    \/ \E c \in Tokens, tracked, pingOk, commandOk, cancelOk \in BOOLEAN :
            TimerFire(c, tracked, pingOk, commandOk, cancelOk)
    \/ GameLock
    \/ \E shift \in BOOLEAN : GameStep(shift)
    \/ \E ok \in BOOLEAN : GameBroadcast(ok)

Spec == Init /\ [][Next]_vars

\* The runs in which the event loop's channel takes every command and no
\* liveness timer expires (TIMEOUT_MILLIS is ten seconds; a gravity step is due
\* every second).
NextGame ==
    \/ Connect
    \/ \E c \in Tokens : Disconnect(c)
    \/ \E c \in Tokens, piece_type \in PieceTypes : OnOpenLock(c, piece_type)
    \/ OnOpenSend(TRUE, TRUE)
    \/ \E c \in Tokens, parsed \in BOOLEAN, payload_id \in Tokens, action \in Actions :
            OnMessage(c, TRUE, TRUE, parsed, payload_id, action)
    \/ OnMessageApply
    \/ \E c \in Tokens, code \in CloseCodes : OnClose(c, code)
    \/ GameLock
    \/ \E shift \in BOOLEAN : GameStep(shift)
    \/ \E ok \in BOOLEAN : GameBroadcast(ok)

GameSpec == Init /\ [][NextGame]_vars

\* The program with the scheduling it has: the game thread loops, a handler
\* that has started returns, a pending timer expires, and a close that
\* on_timeout has requested reaches on_close (a handler that waits for the
\* lock gets it: the game thread releases it every frame). Nothing makes a peer
\* send or close, or a channel command fail.
FairSpec ==
    /\ Spec
    /\ WF_vars(GameLock)
    /\ WF_vars(\E shift \in BOOLEAN : GameStep(shift))
    /\ WF_vars(\E ok \in BOOLEAN : GameBroadcast(ok))
    /\ WF_vars(\E cancelOk \in BOOLEAN : OnOpenSend(TRUE, cancelOk))
    /\ SF_vars(OnMessageApply)
    /\ \A c \in Tokens :
          /\ WF_vars(\E tracked, pingOk, commandOk, cancelOk \in BOOLEAN :
                         TimerFire(c, tracked, pingOk, commandOk, cancelOk))
          /\ SF_vars(ConnState(c) = "closing" /\ OnClose(c, "Error"))

\* The runs of GameSpec in which every connection stays: opens, inputs and
\* the game loop.
NextInput ==
    \/ Connect
    \/ \E c \in Tokens, piece_type \in PieceTypes : OnOpenLock(c, piece_type)
    \/ OnOpenSend(TRUE, TRUE)
    \/ \E c \in Tokens, parsed \in BOOLEAN, payload_id \in Tokens, action \in Actions :
            OnMessage(c, TRUE, TRUE, parsed, payload_id, action)
    \/ OnMessageApply
    \/ GameLock
    \/ \E shift \in BOOLEAN : GameStep(shift)
    \/ \E ok \in BOOLEAN : GameBroadcast(ok)

InputSpec == Init /\ [][NextInput]_vars

\* GameSpec with its scheduling: the game thread loops and on_open, once it
\* has the lock, returns.
FairGameSpec ==
    /\ GameSpec
    /\ WF_vars(GameLock)
    /\ WF_vars(\E shift \in BOOLEAN : GameStep(shift))
    /\ WF_vars(\E ok \in BOOLEAN : GameBroadcast(ok))
    /\ WF_vars(OnOpenSend(TRUE, TRUE))

\* ------------------------------------------------------------------- claims
Keys == SlabKeys(players)
Piece(k) == SlabGet(players, k)
PieceAfter(k) == SlabGet(players', k)

\* Some PieceState of the registry carries player_id c.
Registered(c) == \E k \in Keys : Piece(k).player_id = c

\* A step of game_frame's critical section that runs the gravity step.
GravityStep == GameStep(TRUE)

\* A step in which on_close runs for token c.
CloseStep(c) == \E code \in CloseCodes : OnClose(c, code)

\* The pieces whose downward candidate collided in a gravity step: those the
\* step has not shifted.
Landed(k) == k \in Keys /\ PieceAfter(k).pivot = Piece(k).pivot

\* C1: every PieceState of the registry is stored under the key equal to its
\* playerId, and no two entries share a playerId.
C1_KeyIsPlayerId ==
    /\ \A k \in Keys : Piece(k).player_id = k
    /\ \A k1, k2 \in Keys : k1 # k2 => Piece(k1).player_id # Piece(k2).player_id

\* C2: a piece whose downward candidate collides in a gravity step is removed
\* from the registry by that step: it is no entry of the snapshot the step
\* builds.
C2_LandedPieceRemoved ==
    [][GravityStep =>
         \A k \in Keys : Landed(k) =>
            /\ ~SlabContains(players', k)
            /\ \A i \in DOMAIN Snapshot(players', fallen_blocks').piece_states :
                  Snapshot(players', fallen_blocks').piece_states[i].player_id
                      # Piece(k).player_id]_vars

\* C3 (as claimed): after a gravity step every cell of a piece that landed in
\* it is a fallen block whose value is that piece's shape, and every cell the
\* step adds is a cell of a piece that landed in it.
C3_LandedCellsOwnShape ==
    [][GravityStep =>
         /\ \A k \in Keys : Landed(k) =>
               \A cell \in PieceCells(Piece(k)) :
                  /\ cell \in DOMAIN fallen_blocks'
                  /\ fallen_blocks'[cell] = Piece(k).shape
         /\ \A cell \in (DOMAIN fallen_blocks') \ (DOMAIN fallen_blocks) :
               \E k \in Keys : Landed(k) /\ cell \in PieceCells(Piece(k))]_vars

Highest(S) == CHOOSE k \in S : \A j \in S : j <= k

\* C3 (amended): after a gravity step every cell of a piece that landed in it
\* is a fallen block whose value is the shape of the landed piece of highest
\* key that occupies the cell; every cell the step adds is a cell of a piece
\* that landed in it; every other fallen block keeps its value.
C3_LandedCellsSettled ==
    [][GravityStep =>
         \A cells \in {[k \in {j \in Keys : Landed(j)} |-> PieceCells(Piece(k))]} :
            /\ \A k \in DOMAIN cells : \A cell \in cells[k] :
                  /\ cell \in DOMAIN fallen_blocks'
                  /\ fallen_blocks'[cell] =
                        Piece(Highest({j \in DOMAIN cells : cell \in cells[j]})).shape
            /\ \A cell \in DOMAIN fallen_blocks' :
                  \/ \E k \in DOMAIN cells : cell \in cells[k]
                  \/ /\ cell \in DOMAIN fallen_blocks
                     /\ fallen_blocks'[cell] = fallen_blocks[cell]]_vars

\* Two pieces of different shapes that share a cell have landed in the step
\* just taken.
C3_Witness ==
    /\ gpc = "send"
    /\ \E k1, k2 \in Keys :
          /\ k1 < k2
          /\ Piece(k1).shape # Piece(k2).shape
          /\ PieceCells(Piece(k1)) \cap PieceCells(Piece(k2)) # {}
          /\ PieceCells(Piece(k1)) \cup PieceCells(Piece(k2)) \subseteq DOMAIN fallen_blocks
          /\ \E cell \in PieceCells(Piece(k1)) : fallen_blocks[cell] # Piece(k1).shape

\* C4: with the lock free, no cell of a piece of the registry is a fallen
\* block.
C4_NoOverlapAtRest ==
    lock = "free" =>
        \A k \in Keys : PieceCells(Piece(k)) \cap DOMAIN fallen_blocks = {}

\* A step in which on_message applies an input.
InputStep ==
    \/ \E c \in Tokens, timeoutOk, cancelOk \in BOOLEAN, payload_id \in Tokens,
          action \in Actions :
            OnMessage(c, timeoutOk, cancelOk, TRUE, payload_id, action)
    \/ OnMessageApply

\* C5: an input commits a candidate only if the candidate does not collide
\* with the fallen blocks of game_frame.
C5_InputChecksBoard ==
    [][InputStep =>
         \A k \in Keys :
            PieceAfter(k) # Piece(k) =>
               ~fallen_blocks_collision(PieceAfter(k), fallen_blocks)]_vars

\* C6: on_close for token c removes exactly the PieceState created for c (the
\* one that carries player_id c) and leaves every other entry as it is.
C6_CloseRemovesOwnPiece ==
    [][\A c \in Tokens : CloseStep(c) =>
         /\ ~crashed'
         /\ Registered(c)
         /\ \A k \in Keys :
               IF Piece(k).player_id = c
               THEN ~SlabContains(players', k)
               ELSE SlabContains(players', k) /\ PieceAfter(k) = Piece(k)]_vars

C8_ReconnectSameShape ==
    [][\A c \in Tokens, piece_type \in PieceTypes :
         (OnOpenLock(c, piece_type) /\ c \in Keys) =>
            /\ players' = players
            /\ \E k \in Keys :
                  /\ Piece(k).player_id = c
                  /\ handler'.piece_type = Piece(k).shape]_vars

\* C9: a connection whose peer has stopped sending and answering is
\* eventually no entry of the registry.
C9_SilentEventuallyRemoved ==
    \A c \in Tokens : (ConnState(c) = "silent") ~> (~Registered(c))

\* C10: at most one liveness timer is pending per connection.
C10_OneTimerPending ==
    \A c \in Tokens : pending[c] <= 1

\* A step in which a session handler reads or writes the registry: on_open's
\* lookup and insert, on_message's update_state (not the wait for the lock
\* before it), on_close's remove_player.
HandlerAccess ==
    \/ /\ handler'.pc = "open"
       /\ \E c \in Tokens, piece_type \in PieceTypes : OnOpenLock(c, piece_type)
    \/ /\ handler'.pc = "idle"
       /\ msgs' # msgs \/ handler.pc = "message"
       /\ InputStep
    \/ /\ conns' # conns
       /\ \E c \in Tokens : CloseStep(c)

\* C11: game_frame's critical section and the handlers' accesses to the
\* registry exclude each other: the guard is held by game_frame exactly while
\* it is between its lock and its drop, by the event loop thread exactly
\* while on_open is between its lock and its return; a handler accesses the
\* registry only outside game_frame's critical section, and the registry
\* changes only in a handler's access or in the gravity step, which is one
\* step for every observer.
C11_LockExclusive ==
    /\ [](/\ (gpc = "locked") <=> (lock = "game")
          /\ (handler.pc = "open") <=> (lock = "main")
          /\ ~(gpc = "locked" /\ handler.pc = "open"))
    /\ [][/\ (gpc = "locked" \/ lock = "game") => ~HandlerAccess
          /\ (handler.pc = "open" \/ lock # "game") => ~GravityStep
          /\ (players' # players /\ ~crashed') => (GravityStep \/ HandlerAccess)]_vars

\* on_message holds a parsed input and waits for the lock that game_frame
\* holds.
C11_Witness ==
    /\ gpc = "locked"
    /\ lock = "game"
    /\ handler.pc = "message"
    /\ Keys # {}

\* The steps that send to the network: on_open's init message, on_timeout's
\* ping or close, game_frame's broadcast. on_message and on_close send
\* nothing.
HandlerSend ==
    \/ \E cancelOk \in BOOLEAN : OnOpenSend(TRUE, cancelOk)
    \/ \E c \in Tokens, tracked, pingOk, commandOk, cancelOk \in BOOLEAN :
          /\ ConnState(c) # "free"
          /\ TimerFire(c, tracked, pingOk, commandOk, cancelOk)

\* C12: no thread sends while it holds the lock: the event loop thread does
\* not hold it in a step in which a handler sends, and game_frame does not
\* hold it when it broadcasts.
C12_NoSendUnderLock ==
    [][/\ HandlerSend => lock # "main"
       /\ (\E ok \in BOOLEAN : GameBroadcast(ok)) => lock # "game"]_vars

\* C13: in a gravity step a piece lands exactly when its downward candidate
\* collides with the fallen blocks as they were at the start of the step.
C13_ChecksAgainstStartBoard ==
    [][GravityStep =>
         \A k \in Keys :
            Landed(k) <=>
               fallen_blocks_collision([Piece(k) EXCEPT !.pivot.y = @ + 1],
                                       fallen_blocks)]_vars

\* C14: the fallen blocks only grow: while the process runs, a cell that is a
\* fallen block stays one, with the same shape value.
C14_FallenBlocksAppendOnly ==
    [][~crashed' =>
         \A cell \in DOMAIN fallen_blocks :
            /\ cell \in DOMAIN fallen_blocks'
            /\ fallen_blocks'[cell] = fallen_blocks[cell]]_vars

\* C15: every iteration of game_frame builds one snapshot, with or without a
\* gravity step, and goes on to broadcast it; a broadcast that fails is
\* followed by the next iteration; the loop never stops emitting snapshots.
C15_LoopKeepsEmitting ==
    /\ [][(\E shift \in BOOLEAN : GameStep(shift)) => gpc' = "send"]_vars
    /\ [][GameBroadcast(FALSE) => (gpc' = "top" /\ ~crashed')]_vars
    /\ []<>(gpc = "send")

\* The registry after a step differs from the one before at most in the
\* entry under key c, which is as before or moved by one of the actions.
OnlyKeyMoves(c) ==
    /\ SlabKeys(players') = Keys
    /\ \A k \in Keys \ {c} : PieceAfter(k) = Piece(k)
    /\ c \in Keys =>
          PieceAfter(c) \in {Piece(c)} \cup {Candidate(Piece(c), a) : a \in Actions}

\* C16: an inbound message on connection c that parses is applied as an input
\* of c, whatever player_id its payload names: only the entry under c's token
\* can move; a message that does not parse leaves the registry and the
\* connection as they are.
C16_InputLabelledByToken ==
    [][/\ msgs' # msgs =>
          \A c \in Tokens :
            /\ (\E timeoutOk, cancelOk \in BOOLEAN, payload_id \in Tokens,
                   action \in Actions :
                     OnMessage(c, timeoutOk, cancelOk, TRUE, payload_id, action))
                  => (OnlyKeyMoves(c) /\ conns' = conns)
            /\ (\E timeoutOk, cancelOk \in BOOLEAN, payload_id \in Tokens,
                   action \in Actions :
                     OnMessage(c, timeoutOk, cancelOk, FALSE, payload_id, action))
                  => (players' = players /\ conns' = conns /\ handler' = handler)
       /\ (handler.pc = "message" /\ OnMessageApply) =>
             (OnlyKeyMoves(handler.token) /\ conns' = conns)]_vars

\* on_message has parsed an input whose payload names the player_id of the
\* other connection's piece, and is about to apply it.
C16_Witness ==
    /\ handler.pc = "message"
    /\ handler.player_id # handler.token
    /\ handler.player_id \in Keys
    /\ handler.token \in Keys

\* C17: a gravity step keeps the keys of the registry and changes a piece
\* only in pivot.y: a piece whose downward candidate does not collide, when
\* its turn comes, with the fallen blocks and the pieces of lower key that
\* landed in the step moves down by exactly one; a piece whose candidate
\* collides stays as it is; every shape is one of the seven.
C17_GravityMovesOnlyDown ==
    [][GravityStep =>
         /\ SlabKeys(players') = Keys
         /\ \A landed \in {{k \in Keys : Landed(k)}} :
            \A k \in Keys :
               LET cand == [Piece(k) EXCEPT !.pivot.y = @ + 1]
                   board == (DOMAIN fallen_blocks) \cup
                            UNION {PieceCells(Piece(j)) : j \in {i \in landed : i < k}}
                   collides == fallen_blocks_collision(cand, [c \in board |-> 0])
               IN /\ PieceAfter(k) = (IF collides THEN Piece(k) ELSE cand)
                  /\ PieceAfter(k).shape \in 0 .. (NumShapes - 1)]_vars

\* A gravity step has just moved one piece down and landed another.
C17_Witness ==
    /\ gpc = "send"
    /\ \E k \in Keys :
          /\ Piece(k).pivot.y = SpawnY + 1
          /\ ~(PieceCells(Piece(k)) \subseteq DOMAIN fallen_blocks)
    /\ \E k \in Keys : PieceCells(Piece(k)) \subseteq DOMAIN fallen_blocks

\* A step in which on_timeout runs for the connection under token c.
TimeoutStep(c) ==
    /\ ConnState(c) # "free"
    /\ \E tracked, pingOk, commandOk, cancelOk \in BOOLEAN :
          TimerFire(c, tracked, pingOk, commandOk, cancelOk)

\* The ping of the step was sent, a timer armed in the step is pending under
\* the handle of the connection, and the connection is as it was.
ProbeSentAndRearmed(c) ==
    /\ pings' # pings
    /\ timeout'[c] = "Live"
    /\ pending'[c] >= 1
    /\ conns' = conns

\* The ping of the step was not sent, the close of the connection was
\* requested and no timer was armed.
ProbeFailedAndClosing(c) ==
    /\ pings' = pings
    /\ pending'[c] = pending[c] - 1
    /\ IsOpen(c) => ConnState(c)' = "closing"

\* C18: every expiry of a liveness timer has exactly one of two outcomes: the
\* ping was sent, a new timer is armed and the connection stays open; or the
\* ping was not sent, no timer is armed and the connection is closed with the
\* Error code, after which the close handler runs and the player of the
\* connection leaves the registry.
C18_TimeoutOutcomes ==
    /\ [][\A c \in Tokens :
             (pending'[c] # pending[c] \/ pings' # pings \/ crashed') =>
             (TimeoutStep(c) =>
                /\ ~crashed'
                /\ ProbeSentAndRearmed(c) \/ ProbeFailedAndClosing(c))]_vars
    /\ \A c \in Tokens : (ConnState(c) = "closing") ~> (~crashed /\ ~Registered(c))

\* C19: whenever on_close runs for the connection under token c, c is a key
\* of the registry, so that remove_player never removes a vacant key.
C19_CloseFindsKey ==
    [][conns' # conns => \A c \in Tokens : CloseStep(c) => c \in Keys]_vars

\* C20: a connection whose on_open has returned and whose close has not been
\* requested has a liveness timer pending, and once on_close has run for a
\* connection no timer of it sends a further ping or removes a player.
C20_TimerWhileOpenOnly ==
    /\ [](\A c \in Tokens : ConnState(c) \in {"open", "silent"} => pending[c] >= 1)
    /\ [][\A c \in Tokens :
             (ConnState(c) = "closed" /\ TimeoutStep(c)) =>
             (~crashed' => (pings' = pings /\ players' = players))]_vars

====
